---------------------------- MODULE Spec2Model ----------------------------
(***************************************************************************)
(* Newick reader and writer of phylo.newick (reader.py, writer.py).        *)
(*                                                                         *)
(* Text is a sequence of one-character strings.  A cursor position p is    *)
(* the number of characters already consumed, as cStringIO's tell(): the   *)
(* character at the cursor is s[p + 1].                                    *)
(***************************************************************************)
EXTENDS Integers, Sequences, FiniteSets, TLC

(***************************************************************************)
(* Bounds of the model.                                                    *)
(***************************************************************************)
\* longest input, in tokens, of the enumerated inputs of read
MaxTokens == 5
\* a parse stops being followed once its tree holds this many nodes
MaxTreeNodes == 8
\* longest input, in tokens, of two overlapping reads
ConcMaxTokens == 2
\* longest tip name handed to the writer
MaxNameLen == 4
\* most digits in the integer, fraction and exponent part of a branch length
MaxDigits == 2

(***************************************************************************)
(* Characters.                                                             *)
(***************************************************************************)
TAB == "\t"

\* what Python's str.strip() and the regular expressions' \s take as space
WS == {" ", TAB}

Digits == {"0", "1", "2", "3", "4", "5", "6", "7", "8", "9"}

Letters ==
    {"a", "b", "c", "d", "e", "f", "g", "h", "i", "j", "k", "l", "m",
     "n", "o", "p", "q", "r", "s", "t", "u", "v", "w", "x", "y", "z",
     "A", "B", "C", "D", "E", "F", "G", "H", "I", "J", "K", "L", "M",
     "N", "O", "P", "Q", "R", "S", "T", "U", "V", "W", "X", "Y", "Z"}

\* the class of _nameRegex: [a-zA-Z0-9\-_\?\*\/]
NameChars == Letters \cup Digits \cup {"-", "_", "?", "*", "/"}

DigitVal(c) ==
    CASE c = "0" -> 0 [] c = "1" -> 1 [] c = "2" -> 2 [] c = "3" -> 3
      [] c = "4" -> 4 [] c = "5" -> 5 [] c = "6" -> 6 [] c = "7" -> 7
      [] c = "8" -> 8 [] c = "9" -> 9

DigitChar(d) ==
    CASE d = 0 -> "0" [] d = 1 -> "1" [] d = 2 -> "2" [] d = 3 -> "3"
      [] d = 4 -> "4" [] d = 5 -> "5" [] d = 6 -> "6" [] d = 7 -> "7"
      [] d = 8 -> "8" [] d = 9 -> "9"

(***************************************************************************)
(* Text helpers.                                                           *)
(***************************************************************************)
Min(a, b) == IF a <= b THEN a ELSE b

Max(a, b) == IF a >= b THEN a ELSE b

\* s[p+1 .. q], the text between two cursor positions
Slice(s, p, q) == IF q <= p THEN << >> ELSE SubSeq(s, p + 1, q)

\* str.count for a one-character pattern
Count(s, c) == Cardinality({i \in 1..Len(s) : s[i] = c})

RECURSIVE Skip(_, _, _)
\* the cursor after the longest run of characters of class C that starts at p
Skip(s, p, C) ==
    IF p < Len(s) /\ s[p + 1] \in C THEN Skip(s, p + 1, C) ELSE p

RECURSIVE SkipNot(_, _, _)
\* the cursor after the longest run of characters other than c
SkipNot(s, p, c) ==
    IF p < Len(s) /\ s[p + 1] # c THEN SkipNot(s, p + 1, c) ELSE p

\* the character at the cursor, "" at the end of the text
CharAt(s, p) == IF p < Len(s) THEN s[p + 1] ELSE ""

RECURSIVE Pow10(_)
Pow10(n) == IF n <= 0 THEN 1 ELSE 10 * Pow10(n - 1)

RECURSIVE DigitsVal(_)
\* the integer a run of digits denotes
DigitsVal(ds) ==
    IF ds = << >> THEN 0
    ELSE 10 * DigitsVal(SubSeq(ds, 1, Len(ds) - 1)) + DigitVal(ds[Len(ds)])

RECURSIVE IntText(_)
\* the decimal digits of a natural number
IntText(n) ==
    IF n < 10 THEN <<DigitChar(n)>>
    ELSE IntText(n \div 10) \o <<DigitChar(n % 10)>>

(***************************************************************************)
(* Input normalisation of NewickReader._read.                              *)
(***************************************************************************)
RECURSIVE LStrip(_)
LStrip(s) == IF s # << >> /\ Head(s) \in WS THEN LStrip(Tail(s)) ELSE s

RECURSIVE RStrip(_)
RStrip(s) ==
    IF s # << >> /\ s[Len(s)] \in WS
    THEN RStrip(SubSeq(s, 1, Len(s) - 1)) ELSE s

\* str.strip()
Strip(s) == LStrip(RStrip(s))

RECURSIVE CleanSpace(_)
\* _cleanSpaceRegex.sub (' ', s): every run of whitespace becomes one blank
CleanSpace(s) ==
    IF s = << >> THEN << >>
    ELSE IF Head(s) \in WS
         THEN <<" ">> \o CleanSpace(LStrip(s))
         ELSE <<Head(s)>> \o CleanSpace(Tail(s))

\* the cleaned tree string of _read
Normalize(raw) ==
    LET a == Strip(raw)
        b == IF a # << >> /\ a[Len(a)] = ";"
             THEN Strip(SubSeq(a, 1, Len(a) - 1)) ELSE a
    IN  CleanSpace(b)

(***************************************************************************)
(* The cursor over self._curr_src (a cStringIO.StringIO): read(n) stops at *)
(* the end of the text, and a relative seek that would pass the start      *)
(* stops at position 0.                                                    *)
(***************************************************************************)
\* self._curr_src.read (1): the cursor afterwards
Read1(s, p) == Min(p + 1, Len(s))

\* self._curr_src.seek (-n, 1): the cursor afterwards
SeekBack(p, n) == Max(0, p - n)

\* _peek: the character read, and the cursor after the seek back
PeekChar(s, p) == CharAt(s, p)

PeekPos(s, p) == SeekBack(Read1(s, p), 1)

\* _consumeLeadingSpace: read while the character read is a blank, then
\* seek back by one
ConsumeLeadingSpace(s, p) ==
    LET q == Skip(s, p, {" "})
    IN  SeekBack(Read1(s, q), 1)

(***************************************************************************)
(* The regular expressions of the reader, matched at the cursor.  A match  *)
(* is [ok, end, text]: whether it matched, the cursor after group(0), and  *)
(* group(1).                                                               *)
(***************************************************************************)
NoMatch(p) == [ok |-> FALSE, end |-> p, text |-> << >>]

\* _quotedNameRegex:  \s*'([^']*)'\s*
MatchQuotedName(s, p) ==
    LET a == Skip(s, p, WS)
        b == SkipNot(s, a + 1, "'")
    IN  IF CharAt(s, a) = "'" /\ CharAt(s, b) = "'"
        THEN [ok |-> TRUE, end |-> Skip(s, b + 1, WS),
              text |-> Slice(s, a + 1, b)]
        ELSE NoMatch(p)

\* _nameRegex:  \s*([a-zA-Z0-9\-_\?\*\/]+)\s*
MatchName(s, p) ==
    LET a == Skip(s, p, WS)
        b == Skip(s, a, NameChars)
    IN  IF b > a
        THEN [ok |-> TRUE, end |-> Skip(s, b, WS), text |-> Slice(s, a, b)]
        ELSE NoMatch(p)

\* _parseName: the quoted form is tried first
ParseName(s, p) ==
    IF MatchQuotedName(s, p).ok THEN MatchQuotedName(s, p)
    ELSE MatchName(s, p)

\* the cursor after an optional "-"
OptMinus(s, p) == IF CharAt(s, p) = "-" THEN p + 1 ELSE p

\* -?\d\.\d+[eE]\-\d+  at c: the cursor after it, or -1
NumSci(s, c) ==
    LET a == OptMinus(s, c)
        f == Skip(s, a + 2, Digits)
        x == Skip(s, f + 2, Digits)
    IN  IF /\ CharAt(s, a) \in Digits
           /\ CharAt(s, a + 1) = "."
           /\ f > a + 2
           /\ CharAt(s, f) \in {"e", "E"}
           /\ CharAt(s, f + 1) = "-"
           /\ x > f + 2
        THEN x ELSE -1

\* -?0?\.\d+  at c: the cursor after it, or -1
NumFrac(s, c) ==
    LET a == OptMinus(s, c)
        d == IF CharAt(s, a) = "0" /\ CharAt(s, a + 1) = "." THEN a + 1 ELSE a
        f == Skip(s, d + 1, Digits)
    IN  IF CharAt(s, d) = "." /\ f > d + 1 THEN f ELSE -1

\* \d+\.\d+  at c: the cursor after it, or -1
NumDec(s, c) ==
    LET i == Skip(s, c, Digits)
        f == Skip(s, i + 1, Digits)
    IN  IF i > c /\ CharAt(s, i) = "." /\ f > i + 1 THEN f ELSE -1

\* \d+  at c: the cursor after it, or -1
NumInt(s, c) ==
    LET i == Skip(s, c, Digits)
    IN  IF i > c THEN i ELSE -1

\* the alternation (A|B|C|D) of _distRegex: the first alternative that
\* matches at c wins
NumEnd(s, c) ==
    IF NumSci(s, c) >= 0 THEN NumSci(s, c)
    ELSE IF NumFrac(s, c) >= 0 THEN NumFrac(s, c)
    ELSE IF NumDec(s, c) >= 0 THEN NumDec(s, c)
    ELSE NumInt(s, c)

\* _distRegex:  \s*:\s*(...)\s*
MatchDist(s, p) ==
    LET a == Skip(s, p, WS)
        c == Skip(s, a + 1, WS)
        e == NumEnd(s, c)
    IN  IF CharAt(s, a) = ":" /\ e >= 0
        THEN [ok |-> TRUE, end |-> Skip(s, e, WS), text |-> Slice(s, c, e)]
        ELSE NoMatch(p)

\* _NODE_ANN_REGEX:  ^\s*\[\&([^\]]*)\]\s*
MatchAnn(s, p) ==
    LET a == Skip(s, p, WS)
        b == SkipNot(s, a + 2, "]")
    IN  IF CharAt(s, a) = "[" /\ CharAt(s, a + 1) = "&" /\ CharAt(s, b) = "]"
        THEN [ok |-> TRUE, end |-> Skip(s, b + 1, WS),
              text |-> Slice(s, a + 2, b)]
        ELSE NoMatch(p)

(***************************************************************************)
(* Numbers.  float (text) is kept exactly, as the decimal m * 10^(-k) with *)
(* k >= 0 and no trailing zero in m: two texts give equal records exactly  *)
(* when they denote the same number.                                       *)
(***************************************************************************)
RECURSIVE Reduce(_, _)
Reduce(m, k) ==
    IF m = 0 THEN [m |-> 0, k |-> 0]
    ELSE IF k < 0 THEN Reduce(m * 10, k + 1)
    ELSE IF k > 0 /\ m % 10 = 0 THEN Reduce(m \div 10, k - 1)
    ELSE [m |-> m, k |-> k]

\* float (text) for text of the shape -?digits?(.digits)?([eE]-?digits)?
ParseFloat(text) ==
    LET neg  == text # << >> /\ text[1] = "-"
        a    == IF neg THEN 1 ELSE 0
        i    == Skip(text, a, Digits)
        f    == IF CharAt(text, i) = "." THEN Skip(text, i + 1, Digits) ELSE i
        frac == IF f > i THEN Slice(text, i + 1, f) ELSE << >>
        hasE == CharAt(text, f) \in {"e", "E"}
        eneg == hasE /\ CharAt(text, f + 1) = "-"
        x    == IF ~hasE THEN 0
                ELSE DigitsVal(Slice(text, IF eneg THEN f + 2 ELSE f + 1,
                                     Len(text)))
        mag  == DigitsVal(Slice(text, a, i) \o frac)
    IN  Reduce(IF neg THEN 0 - mag ELSE mag,
               Len(frac) + (IF eneg THEN x ELSE 0 - x))

RECURSIVE FracText(_, _)
\* the d decimal digits of n < 10^d, with leading zeros
FracText(n, d) ==
    IF d = 0 THEN << >>
    ELSE FracText(n \div 10, d - 1) \o <<DigitChar(n % 10)>>

\* '%.<d>f' % v: d decimals, rounded to the nearest (a tie is rounded away
\* from zero; the model's inputs produce none)
FormatFixed(v, d) ==
    LET mag == IF v.m < 0 THEN 0 - v.m ELSE v.m
        sc  == IF v.k <= d THEN mag * Pow10(d - v.k)
               ELSE (2 * mag + Pow10(v.k - d)) \div (2 * Pow10(v.k - d))
    IN  (IF v.m < 0 THEN <<"-">> ELSE << >>)
        \o IntText(sc \div Pow10(d)) \o <<".">> \o FracText(sc % Pow10(d), d)

\* self._dist_format = '%.3f' and self._support_format = '%.2f'
Format3(v) == FormatFixed(v, 3)

Format2(v) == FormatFixed(v, 2)

(***************************************************************************)
(* Attribute mappings of nodes and branches: functions from a key (text)   *)
(* to a value.  A value is text (a title, an annotation) or a number.      *)
(***************************************************************************)
None == [kind |-> "none", s |-> << >>, m |-> 0, k |-> 0]

StrVal(t) == [kind |-> "str", s |-> t, m |-> 0, k |-> 0]

NumVal(v) == [kind |-> "num", s |-> << >>, m |-> v.m, k |-> v.k]

TITLE == <<"t", "i", "t", "l", "e">>

NAME == <<"n", "a", "m", "e">>

DISTANCE == <<"d", "i", "s", "t", "a", "n", "c", "e">>

SUPPORT == <<"s", "u", "p", "p", "o", "r", "t">>

NoAttrs == [key \in {} |-> None]

\* mapping.get (key): None when the key is absent
Get(attrs, key) == IF key \in DOMAIN attrs THEN attrs[key] ELSE None

\* mapping[key] = val
Put(attrs, key, val) ==
    [x \in (DOMAIN attrs) \cup {key} |-> IF x = key THEN val ELSE attrs[x]]

\* mapping.update (other)
Update(attrs, other) ==
    [x \in (DOMAIN attrs) \cup (DOMAIN other) |->
        IF x \in DOMAIN other THEN other[x] ELSE attrs[x]]

(***************************************************************************)
(* _parse_node_annotations: the text between "[&" and "]" is cut at every  *)
(* comma that a letter follows (and at every "||"), and each piece at its  *)
(* first "=".                                                              *)
(***************************************************************************)
RECURSIVE AnnCut(_, _, _)
\* the cursor of the next cut at or after q: [at, skip], skip the number of
\* characters the cut removes; at = Len(body) when there is none
AnnCut(body, q, dummy) ==
    IF q >= Len(body) THEN [at |-> Len(body), skip |-> 0]
    ELSE IF CharAt(body, q) = "," /\ CharAt(body, q + 1) \in Letters
         THEN [at |-> q, skip |-> 1]
    ELSE IF CharAt(body, q) = "|" /\ CharAt(body, q + 1) = "|"
         THEN [at |-> q, skip |-> 2]
    ELSE AnnCut(body, q + 1, dummy)

RECURSIVE AnnSplit(_, _)
\* _ANN_LIST_SPLIT_RE.sub (r'||\1', body).split ('||'), from cursor p
AnnSplit(body, p) ==
    LET c == AnnCut(body, p, 0)
    IN  IF c.at >= Len(body) THEN <<Slice(body, p, Len(body))>>
        ELSE <<Slice(body, p, c.at)>> \o AnnSplit(body, c.at + c.skip)

\* x.split ('=', 1) gives two parts
HasEq(piece) == \E i \in 1..Len(piece) : piece[i] = "="

EqAt(piece) == SkipNot(piece, 0, "=")

RECURSIVE AnnDict(_)
\* dict ([x.split ('=', 1) for x in anns]): a later pair overrides
AnnDict(anns) ==
    IF anns = << >> THEN NoAttrs
    ELSE LET x == anns[Len(anns)]
         IN  Put(AnnDict(SubSeq(anns, 1, Len(anns) - 1)),
                 Slice(x, 0, EqAt(x)),
                 StrVal(Slice(x, EqAt(x) + 1, Len(x))))

(***************************************************************************)
(* The tree API the reader fills (phylo.core.tree.Tree, as this package    *)
(* calls it).  Nodes, branches and trees are objects: an object is named   *)
(* by its index in the heap H = [nodes, branches, trees].  A node is its   *)
(* attribute mapping, a branch joins parent a to child b and has its own   *)
(* mapping, a tree lists its nodes and branches in creation order.         *)
(***************************************************************************)
EmptyTree == [root |-> 0, nodes |-> << >>, branches |-> << >>]

\* self._tree_kls(): a new, empty tree at the end of the heap
NewTree(H) == [H EXCEPT !.trees = Append(@, EmptyTree)]

\* tree.add_root(): a new node without attributes, made the tree's root
AddRoot(H, tr) ==
    LET n == Len(H.nodes) + 1
    IN  [H EXCEPT !.nodes = Append(@, NoAttrs),
                  !.trees[tr].root = n,
                  !.trees[tr].nodes = Append(@, n)]

\* a variant of add_node that creates the node without its branch
AddNodeNoBranch(H, tr, par) ==
    LET n == Len(H.nodes) + 1
    IN  [H EXCEPT !.nodes = Append(@, NoAttrs),
                  !.trees[tr].nodes = Append(@, n)]

\* tree.add_node (par): a new node without attributes and the new branch
\* that joins it to par
AddNode(H, tr, par) ==
    LET n == Len(H.nodes) + 1
        b == Len(H.branches) + 1
    IN  [H EXCEPT !.nodes = Append(@, NoAttrs),
                  !.branches = Append(@, [a |-> par, b |-> n,
                                          attrs |-> NoAttrs]),
                  !.trees[tr].nodes = Append(@, n),
                  !.trees[tr].branches = Append(@, b)]

\* tree.count_nodes(), tree.count_branches()
CountNodes(H, tr) == Len(H.trees[tr].nodes)

CountBranches(H, tr) == Len(H.trees[tr].branches)

\* the truth value of a node object in a condition ("if par_node:",
\* "if parent:", "if (not root)").  0 stands for None.  Node is a mapping
\* of the tree API (node['distance'], node.get, node.update): with falsy
\* set, a mapping without entries is false, as Python's dict is; without,
\* every node object is true.
Truthy(H, n, falsy) == n # 0 /\ (falsy => H.nodes[n] # NoAttrs)

(***************************************************************************)
(* One call of NewickReader.read, as a machine M: the reader instance's    *)
(* fields (src and pos of self._curr_src, cur for self._curr_tree), the    *)
(* heap H, and the call's own frame stack and outcome.  A frame of         *)
(* _parse_node is [pc, node, par, branch] for new_node, par_node and       *)
(* new_branch.                                                             *)
(***************************************************************************)
NoErr == [kind |-> "", posn |-> -1]

IdleCall ==
    [pc |-> "idle", stack |-> << >>, tree_str |-> << >>, ret |-> 0,
     err |-> NoErr, dist |-> None]

Frame(pc, node, par, branch) ==
    [pc |-> pc, node |-> node, par |-> par, branch |-> branch]

Top(c) == c.stack[Len(c.stack)]

SetTop(stack, f) == [stack EXCEPT ![Len(stack)] = f]

Pop(stack) == SubSeq(stack, 1, Len(stack) - 1)

Fail(M, kind, posn) ==
    [M EXCEPT !.c.pc = "failed", !.c.stack = << >>,
              !.c.err = [kind |-> kind, posn |-> posn]]

\* theNumLeftBraces and theNumRightBraces of _read
NumLeftBraces(s) == Count(s, "(")

NumRightBraces(s) == Count(s, "(")

\* _read, lines 118-132, for the cleaned text s: it is validated, then
\* the instance gets its cursor and a new tree, and _parse_node (None) is
\* called
ReadClean(M, s) ==
    LET C == [IdleCall EXCEPT !.tree_str = s]
    IN  IF s = << >> \/ NumLeftBraces(s) # NumRightBraces(s)
        THEN Fail([M EXCEPT !.c = C], "AssertionError", -1)
        ELSE [M EXCEPT !.src = s, !.pos = 0,
                       !.H = NewTree(M.H), !.cur = Len(M.H.trees) + 1,
                       !.c = [C EXCEPT !.pc = "parsing",
                                       !.stack = <<Frame("enter", 0, 0, 0)>>]]

\* _read, lines 110-132
ReadStart(M, raw) == ReadClean(M, Normalize(raw))

\* _parse_node, lines 191-203: the node is created, and a "(" opens the
\* parse of the first child
ParseEnter(M) ==
    LET f  == Top(M.c)
        H1 == IF f.par = 0 THEN AddRoot(M.H, M.cur)
              ELSE AddNode(M.H, M.cur, f.par)
        n  == Len(H1.nodes)
        b  == IF f.par = 0 THEN 0 ELSE Len(H1.branches)
        p1 == ConsumeLeadingSpace(M.src, M.pos)
        ch == PeekChar(M.src, p1)
        p2 == PeekPos(M.src, p1)
    IN  IF ch = "("
        THEN [M EXCEPT !.H = H1, !.pos = Read1(M.src, p2),
                       !.c.stack = Append(SetTop(@, Frame("children", n,
                                                          f.par, b)),
                                          Frame("enter", 0, n, 0))]
        ELSE [M EXCEPT !.H = H1, !.pos = p2,
                       !.c.stack = SetTop(@, Frame("label", n, f.par, b))]

\* _parse_node, lines 205-220, after a child has returned: a "," opens the
\* next child; otherwise the ")" is required and consumed
ParseSiblings(M) ==
    LET f  == Top(M.c)
        p1 == ConsumeLeadingSpace(M.src, M.pos)
        ch == PeekChar(M.src, p1)
        p2 == PeekPos(M.src, p1)
        posn == ConsumeLeadingSpace(M.src, p2)
        p4 == PeekPos(M.src, posn)
    IN  IF ch = ","
        THEN [M EXCEPT !.pos = Read1(M.src, p2),
                       !.c.stack = Append(@, Frame("enter", 0, f.node, 0))]
        ELSE IF PeekChar(M.src, posn) # ")"
             THEN Fail([M EXCEPT !.pos = p4], "AssertionError", posn)
             ELSE [M EXCEPT !.pos = Read1(M.src, p4),
                            !.c.stack = SetTop(@, [f EXCEPT !.pc = "label"])]

\* _parseDist: the cursor afterwards and the float returned (None without
\* a match)
ParseDist(s, p) ==
    LET d == MatchDist(s, p)
    IN  [end |-> d.end,
         val |-> IF d.ok THEN NumVal(ParseFloat(d.text)) ELSE None]

\* _parse_node, lines 235-239: where the parsed distance is stored
StoreDistance(H, f, val, falsy) ==
    IF Truthy(H, f.par, falsy)
    THEN [H EXCEPT !.branches[f.branch].attrs = Put(@, DISTANCE, val)]
    ELSE [H EXCEPT !.nodes[f.node] = Put(@, DISTANCE, val)]

\* _parse_node, lines 227-240: name, annotations, distance, return
ParseLabel(M, falsy) ==
    LET f   == Top(M.c)
        nm  == ParseName(M.src, M.pos)
        H1  == IF nm.ok
               THEN [M.H EXCEPT !.nodes[f.node] = Put(@, TITLE,
                                                      StrVal(nm.text))]
               ELSE M.H
        an  == MatchAnn(M.src, nm.end)
        pcs == AnnSplit(an.text, 0)
        H2  == IF an.ok
               THEN [H1 EXCEPT !.nodes[f.node] = Update(@, AnnDict(pcs))]
               ELSE H1
        d   == ParseDist(M.src, an.end)
        H3  == IF d.val # None THEN StoreDistance(H2, f, d.val, falsy)
               ELSE H2
        rest == Pop(M.c.stack)
    IN  IF an.ok /\ \E i \in 1..Len(pcs) : ~HasEq(pcs[i])
        THEN Fail([M EXCEPT !.H = H1, !.pos = an.end], "ValueError", -1)
        ELSE [M EXCEPT !.H = H3, !.pos = d.end,
                       !.c.stack = rest,
                       !.c.dist = d.val,
                       !.c.pc = IF rest = << >> THEN "done" ELSE "parsing",
                       !.c.ret = IF rest = << >> THEN M.cur ELSE 0]

(***************************************************************************)
(* Writer._write and Writer._writeNode.  The text written to the sink is   *)
(* [ok, text]: ok is FALSE when the call raises (a tip without a name, a   *)
(* value that is not a number under a float format).                       *)
(***************************************************************************)
RECURSIVE AdjacentOver(_, _, _)
AdjacentOver(H, bs, n) ==
    IF bs = << >> THEN << >>
    ELSE LET br == H.branches[Head(bs)]
             rest == AdjacentOver(H, Tail(bs), n)
         IN  IF br.a = n THEN <<br.b>> \o rest
             ELSE IF br.b = n THEN <<br.a>> \o rest
             ELSE rest

\* tree.iter_adjacent_nodes (n): the nodes a branch of the tree joins to n,
\* in the order of the branches
Adjacent(H, tr, n) == AdjacentOver(H, H.trees[tr].branches, n)

\* tree.is_node_tip (n): n is the parent end of no branch
IsNodeTip(H, tr, n) ==
    \A i \in 1..Len(H.trees[tr].branches) :
        H.branches[H.trees[tr].branches[i]].a # n

\* tree.get_distance (n, parent): the distance of the branch joining them
GetDistance(H, tr, n, parent) ==
    LET S == {i \in 1..Len(H.trees[tr].branches) :
                 LET br == H.branches[H.trees[tr].branches[i]]
                 IN  {br.a, br.b} = {n, parent}}
    IN  IF S = {} THEN None
        ELSE Get(H.branches[H.trees[tr].branches[CHOOSE i \in S : TRUE]].attrs,
                 DISTANCE)

\* _quotedNameRegex.search (name) of the writer:  \s*'[^']*'\s*  anywhere
QuotedSearch(name) ==
    \E i \in 1..Len(name) : \E j \in (i + 1)..Len(name) :
        /\ name[i] = "'"
        /\ name[j] = "'"
        /\ \A h \in (i + 1)..(j - 1) : name[h] # "'"

\* _spacesInNameRegex.search (name):  [\s\,]+  anywhere
SpacesSearch(name) == \E i \in 1..Len(name) : name[i] \in WS \cup {","}

\* _writeNode, lines 75-77: the name of a tip as written
TipName(name) ==
    IF ~QuotedSearch(name) /\ SpacesSearch(name)
    THEN <<"'">> \o name \o <<"'">>
    ELSE name

\* "x or y" over attribute values: an absent value and the empty text are
\* false
OrElse(x, y) == IF x.kind = "none" \/ (x.kind = "str" /\ x.s = << >>)
                THEN y ELSE x

\* _writeNode, lines 97-102: ":" and the formatted distance
WriteDistance(H, tr, n, parent, falsy) ==
    LET dist == IF Truthy(H, parent, falsy)
                THEN GetDistance(H, tr, n, parent)
                ELSE Get(H.nodes[n], DISTANCE)
    IN  CASE dist.kind = "none" -> [ok |-> TRUE, text |-> << >>]
          [] dist.kind = "num"  -> [ok |-> TRUE,
                                    text |-> <<":">> \o Format3(dist)]
          [] OTHER              -> [ok |-> FALSE, text |-> << >>]

\* _writeNode, lines 92-95: what follows the ")" of an internal node
InnerLabel(H, n) ==
    LET sup == Get(H.nodes[n], SUPPORT)
    IN  CASE sup.kind = "none" -> [ok |-> TRUE, text |-> << >>]
          [] sup.kind = "num"  -> [ok |-> TRUE, text |-> Format2(sup)]
          [] OTHER             -> [ok |-> FALSE, text |-> << >>]

RECURSIVE WriteNode(_, _, _, _, _)
RECURSIVE WriteChildren(_, _, _, _, _, _)
\* _writeNode, lines 85-90: the children, separated by ", "
WriteChildren(H, tr, kids, i, n, falsy) ==
    IF i > Len(kids) THEN [ok |-> TRUE, text |-> << >>]
    ELSE LET one  == WriteNode(H, tr, kids[i], n, falsy)
             rest == WriteChildren(H, tr, kids, i + 1, n, falsy)
         IN  [ok |-> one.ok /\ rest.ok,
              text |-> (IF i > 1 THEN <<",", " ">> ELSE << >>)
                       \o one.text \o rest.text]

\* _writeNode (n, parent)
WriteNode(H, tr, n, parent, falsy) ==
    LET name == OrElse(Get(H.nodes[n], TITLE), Get(H.nodes[n], NAME))
        kids == SelectSeq(Adjacent(H, tr, n), LAMBDA x : x # parent)
        sub  == WriteChildren(H, tr, kids, 1, n, falsy)
        lab  == InnerLabel(H, n)
        dist == WriteDistance(H, tr, n, parent, falsy)
    IN  IF IsNodeTip(H, tr, n)
        THEN IF name.kind # "str" THEN [ok |-> FALSE, text |-> << >>]
             ELSE [ok |-> dist.ok, text |-> TipName(name.s) \o dist.text]
        ELSE [ok |-> sub.ok /\ lab.ok /\ dist.ok,
              text |-> <<"(">> \o sub.text \o <<")">>
                       \o lab.text \o dist.text]

RECURSIVE Height(_, _, _, _)
\* the greatest number of branches from n to a node, not passing from
Height(H, tr, n, from) ==
    LET kids == SelectSeq(Adjacent(H, tr, n), LAMBDA x : x # from)
        hs   == {Height(H, tr, kids[i], n) + 1 : i \in 1..Len(kids)}
    IN  IF hs = {} THEN 0 ELSE CHOOSE h \in hs : \A g \in hs : g <= h

\* tree.get_centroid_nodes(): the nodes of least eccentricity
CentroidNodes(H, tr) ==
    LET ns == {H.trees[tr].nodes[i] : i \in 1..Len(H.trees[tr].nodes)}
    IN  {n \in ns : \A o \in ns : Height(H, tr, n, 0) <= Height(H, tr, o, 0)}

\* _write, lines 58-60: the node the writing starts from; which of several
\* centroid nodes comes first is the tree API's choice
WriteStarts(H, tr, falsy) ==
    IF Truthy(H, H.trees[tr].root, falsy) THEN {H.trees[tr].root}
    ELSE CentroidNodes(H, tr)

\* _write: the text written for the tree, from the start node
WriteText(H, tr, start, falsy) == WriteNode(H, tr, start, 0, falsy)

(***************************************************************************)
(* The shape and the attribute values of a tree, free of object            *)
(* identities: two trees are isomorphic with equal attribute values        *)
(* exactly when this is equal.                                             *)
(***************************************************************************)
RECURSIVE CanonNode(_, _, _, _)
CanonNode(H, tr, n, via) ==
    LET bs == SelectSeq(H.trees[tr].branches, LAMBDA b : H.branches[b].a = n)
    IN  [attrs |-> H.nodes[n], via |-> via,
         kids |-> [i \in 1..Len(bs) |->
                      CanonNode(H, tr, H.branches[bs[i]].b,
                                H.branches[bs[i]].attrs)]]

Canon(H, tr) ==
    [count_nodes |-> CountNodes(H, tr),
     count_branches |-> CountBranches(H, tr),
     shape |-> IF H.trees[tr].root = 0 THEN << >>
               ELSE <<CanonNode(H, tr, H.trees[tr].root, NoAttrs)>>]

(***************************************************************************)
(* Inputs.                                                                 *)
(***************************************************************************)
RECURSIVE TokenStrings(_, _)
\* every concatenation of at most n tokens
TokenStrings(toks, n) ==
    IF n = 0 THEN {<< >>}
    ELSE LET S == TokenStrings(toks, n - 1)
         IN  S \cup {s \o tk : s \in S, tk \in toks}

Tokens ==
    {<<"(">>, <<")">>, <<",">>, <<" ">>, <<"A">>, <<":", "1">>,
     <<"'", "A", ",", "'">>}

\* the trees of the reader's documentation (reader.py, lines 41-45, 71
\* and 76)
DocExamples ==
    {<<"(", "(", "a", ")", ")">>,
     <<"(", ",", "(", ",", ")", ",", ")">>,
     <<"(", "(", "a", "b", ",", "c", "d", ")", "e", "f", ":", "0", ".", "5",
       ")", "g", "h", ":", "0", ".", "4">>,
     <<"(", "A", ",", " ", "(", "B", ",", " ", "C", ")", ")">>,
     <<"(", "'", "F", "o", "o", " ", "b", "a", "r", "'", ":", "1", ".", "1",
       "1", ",", " ", "(", "B", ",", " ", "C", ")", ":", "2", ".", "7", "6",
       "e", "-", "1", ")", ":", "0", ".", "1", "2", "3">>}

\* trees with a semicolon, tabs, and node annotations
MoreExamples ==
    {<<" ", "(", "A", ",", TAB, " ", "A", ")", " ", ";", TAB>>,
     <<"(", "A", "[", "&", "k", "=", "1", ",", "2", ",", "j", "=", "x", "]",
       ":", "1", ",", "A", ")">>,
     <<"(", "A", "[", "&", "k", "]", ")">>}

Inputs == TokenStrings(Tokens, MaxTokens) \cup DocExamples \cup MoreExamples

ConcTokens == {<<"(">>, <<")">>, <<",">>, <<"A">>}

ConcInputs == TokenStrings(ConcTokens, ConcMaxTokens)

DigitTokens == {<<"0">>, <<"1">>}

\* runs of one to MaxDigits digits
DigitRuns == TokenStrings(DigitTokens, MaxDigits) \ {<< >>}

\* "-"? (digit+ "." digit+ ([eE] "-"? digit+)? | "0"? "." digit+ | digit+)
NumberTexts ==
    LET exps == {<< >>} \cup {e \o m \o x : e \in {<<"e">>, <<"E">>},
                                            m \in {<< >>, <<"-">>},
                                            x \in DigitRuns}
        body == {i \o <<".">> \o f \o e : i \in DigitRuns, f \in DigitRuns,
                                          e \in exps}
                \cup {z \o <<".">> \o f : z \in {<< >>, <<"0">>},
                                         f \in DigitRuns}
                \cup DigitRuns
    IN  {m \o b : m \in {<< >>, <<"-">>}, b \in body}

\* branch lengths as they stand in a tree string
DistInputs == {<<":">> \o n : n \in NumberTexts}

NameTokens == {<<"a">>, <<"'">>, <<" ">>, <<",">>}

\* tip names of a tree handed to the writer
TipNames ==
    (TokenStrings(NameTokens, MaxNameLen) \ {<< >>})
    \cup {<<"a", " ", "'", "b", "'", " ", "c">>}

(***************************************************************************)
(* State.                                                                  *)
(***************************************************************************)
Threads == {1, 2}

VARIABLES
    curr_src,          \* NewickReader._curr_src: its text ...
    curr_pos,          \* ... and its cursor
    curr_tree,         \* NewickReader._curr_tree (0 before the first read)
    heap,              \* the node, branch and tree objects
    emptyNodeIsFalse,  \* whether the tree API's Node without attributes is
                       \* false in a condition
    call,              \* per caller: the read call in progress, or its outcome
    first,             \* per caller: the tree its first read returned and
                       \* the cleaned text it was read from
    written            \* per caller: what Writer.write wrote for that tree

vars == <<curr_src, curr_pos, curr_tree, heap, emptyNodeIsFalse, call,
          first, written>>

NotWritten == [ok |-> FALSE, done |-> FALSE, text |-> << >>]

NoFirst == [tree |-> 0, str |-> << >>]

EmptyHeap == [nodes |-> << >>, branches |-> << >>, trees |-> << >>]

\* the reader instance, the heap and caller t's call, as one machine
Machine(t) ==
    [src |-> curr_src, pos |-> curr_pos, cur |-> curr_tree, H |-> heap,
     c |-> call[t]]

Commit(t, M) ==
    /\ curr_src' = M.src
    /\ curr_pos' = M.pos
    /\ curr_tree' = M.cur
    /\ heap' = M.H
    /\ call' = [call EXCEPT ![t] = M.c]

Init ==
    /\ curr_src = << >>
    /\ curr_pos = 0
    /\ curr_tree = 0
    /\ heap = EmptyHeap
    /\ emptyNodeIsFalse \in BOOLEAN
    /\ call = [t \in Threads |-> IdleCall]
    /\ first = [t \in Threads |-> NoFirst]
    /\ written = [t \in Threads |-> NotWritten]

(***************************************************************************)
(* Actions.                                                                *)
(***************************************************************************)
\* reader.read is called on one of the inputs
Read(t) ==
    /\ call[t].pc = "idle"
    /\ \E raw \in Inputs : Commit(t, ReadStart(Machine(t), raw))
    /\ UNCHANGED <<emptyNodeIsFalse, first, written>>

ParseNodeEnter(t) ==
    /\ call[t].pc = "parsing"
    /\ Top(call[t]).pc = "enter"
    /\ CountNodes(heap, curr_tree) < MaxTreeNodes
    /\ Commit(t, ParseEnter(Machine(t)))
    /\ UNCHANGED <<emptyNodeIsFalse, first, written>>

ParseNodeSiblings(t) ==
    /\ call[t].pc = "parsing"
    /\ Top(call[t]).pc = "children"
    /\ Commit(t, ParseSiblings(Machine(t)))
    /\ UNCHANGED <<emptyNodeIsFalse, first, written>>

ParseNodeLabel(t) ==
    /\ call[t].pc = "parsing"
    /\ Top(call[t]).pc = "label"
    /\ Commit(t, ParseLabel(Machine(t), emptyNodeIsFalse))
    /\ UNCHANGED <<emptyNodeIsFalse, first, written>>

\* writer.write (tree, sink) for the tree the first read returned
WriteTree(t) ==
    /\ call[t].pc = "done"
    /\ first[t].tree = 0
    /\ ~written[t].done
    /\ \E start \in WriteStarts(heap, call[t].ret, emptyNodeIsFalse) :
          LET w == WriteText(heap, call[t].ret, start, emptyNodeIsFalse)
          IN  written' = [written EXCEPT
                             ![t] = [ok |-> w.ok, done |-> TRUE,
                                     text |-> IF w.ok THEN w.text ELSE << >>]]
    /\ UNCHANGED <<curr_src, curr_pos, curr_tree, heap, emptyNodeIsFalse,
                   call, first>>

\* reader.read of the text that was written
ReRead(t) ==
    /\ call[t].pc = "done"
    /\ first[t].tree = 0
    /\ written[t].ok
    /\ first' = [first EXCEPT ![t] = [tree |-> call[t].ret,
                                      str |-> call[t].tree_str]]
    /\ Commit(t, ReadStart(Machine(t), written[t].text))
    /\ UNCHANGED <<emptyNodeIsFalse, written>>

Next ==
    \/ Read(1)
    \/ ParseNodeEnter(1)
    \/ ParseNodeSiblings(1)
    \/ ParseNodeLabel(1)
    \/ WriteTree(1)
    \/ ReRead(1)

Spec == Init /\ [][Next]_vars

(***************************************************************************)
(* Two callers whose reads on one reader instance overlap.                 *)
(***************************************************************************)
ReadShared(t) ==
    /\ call[t].pc = "idle"
    /\ \E raw \in ConcInputs : Commit(t, ReadStart(Machine(t), raw))
    /\ UNCHANGED <<emptyNodeIsFalse, first, written>>

NextConc ==
    \E t \in Threads :
        \/ ReadShared(t)
        \/ ParseNodeEnter(t)
        \/ ParseNodeSiblings(t)
        \/ ParseNodeLabel(t)

SpecConc == Init /\ [][NextConc]_vars

(***************************************************************************)
(* _parseDist alone, on every branch length of the number grammar.         *)
(***************************************************************************)
InitDist ==
    /\ curr_src \in DistInputs
    /\ curr_pos = 0
    /\ curr_tree = 0
    /\ heap = EmptyHeap
    /\ emptyNodeIsFalse \in BOOLEAN
    /\ call = [t \in Threads |->
                  IF t = 1 THEN [IdleCall EXCEPT !.pc = "parseDist"]
                  ELSE IdleCall]
    /\ first = [t \in Threads |-> NoFirst]
    /\ written = [t \in Threads |-> NotWritten]

ParseDistCall(t) ==
    /\ call[t].pc = "parseDist"
    /\ LET d == ParseDist(curr_src, curr_pos)
       IN  /\ curr_pos' = d.end
           /\ call' = [call EXCEPT ![t].pc = "returned", ![t].dist = d.val]
    /\ UNCHANGED <<curr_src, curr_tree, heap, emptyNodeIsFalse, first,
                   written>>

NextDist == ParseDistCall(1)

SpecDist == InitDist /\ [][NextDist]_vars

(***************************************************************************)
(* The writer on a tree built with the tree API: a root titled r with one  *)
(* tip, whose title is any of TipNames.                                    *)
(***************************************************************************)
TipTree(name) ==
    LET H1 == AddNode(AddRoot(NewTree(EmptyHeap), 1), 1, 1)
    IN  [H1 EXCEPT !.nodes[1] = Put(@, TITLE, StrVal(<<"r">>)),
                   !.nodes[2] = Put(@, TITLE, StrVal(name))]

InitQuote ==
    /\ curr_src = << >>
    /\ curr_pos = 0
    /\ curr_tree = 0
    /\ \E name \in TipNames : heap = TipTree(name)
    /\ emptyNodeIsFalse \in BOOLEAN
    /\ call = [t \in Threads |->
                  IF t = 1 THEN [IdleCall EXCEPT !.pc = "done", !.ret = 1]
                  ELSE IdleCall]
    /\ first = [t \in Threads |-> NoFirst]
    /\ written = [t \in Threads |-> NotWritten]

NextQuote == WriteTree(1)

SpecQuote == InitQuote /\ [][NextQuote]_vars

(***************************************************************************)
(* Reference notions the properties are stated with.                       *)
(***************************************************************************)
RECURSIVE WfNode(_, _)
RECURSIVE WfKids(_, _)
\* node := (children)? name? annotation? (":" number)?  from cursor p: the
\* cursor after the node description, or -1 when there is none
WfNode(s, p) ==
    LET a == Skip(s, p, {" "})
        b == IF CharAt(s, a) = "(" THEN WfKids(s, a + 1) ELSE a
    IN  IF b < 0 THEN -1
        ELSE ParseDist(s, MatchAnn(s, ParseName(s, b).end).end).end

\* children := "(" node ("," node)* ")"  after the "(": the cursor after
\* the ")", or -1
WfKids(s, p) ==
    LET e == WfNode(s, p)
        a == IF e < 0 THEN 0 ELSE Skip(s, e, {" "})
    IN  IF e < 0 THEN -1
        ELSE IF CharAt(s, a) = "," THEN WfKids(s, a + 1)
        ELSE IF CharAt(s, a) = ")" THEN a + 1
        ELSE -1

\* the text is one tree of the grammar, from its first to its last character
WellFormed(s) == s # << >> /\ WfNode(s, 0) = Len(s)

RECURSIVE ChildPositions(_, _, _)
\* the number of "(" and "," of s from index i on that stand outside quoted
\* names and annotation blocks: each opens one child position of a group
ChildPositions(s, i, mode) ==
    IF i > Len(s) THEN 0
    ELSE CASE mode = "quote" ->
                ChildPositions(s, i + 1, IF s[i] = "'" THEN "out" ELSE "quote")
           [] mode = "ann" ->
                ChildPositions(s, i + 1, IF s[i] = "]" THEN "out" ELSE "ann")
           [] OTHER ->
                IF s[i] = "'" THEN ChildPositions(s, i + 1, "quote")
                ELSE IF s[i] = "[" THEN ChildPositions(s, i + 1, "ann")
                ELSE (IF s[i] \in {"(", ","} THEN 1 ELSE 0)
                     + ChildPositions(s, i + 1, "out")

\* one node description for the root and one per child position
NodeDescriptions(s) == 1 + ChildPositions(s, 1, "out")

\* the nodes of tree tr
NodesOf(H, tr) == {H.trees[tr].nodes[i] : i \in 1..Len(H.trees[tr].nodes)}

\* the branches of tree tr that end in node n
Incoming(H, tr, n) ==
    {i \in 1..Len(H.trees[tr].branches) :
        H.branches[H.trees[tr].branches[i]].b = n}

(***************************************************************************)
(* C5.  After a successful read of a tree string, the tree has one node    *)
(* per node description of the string (the root, and one per child         *)
(* position of each group: empty tips count, singleton groups are not      *)
(* collapsed) and one branch fewer than nodes; and at every point of a     *)
(* parse, every node created so far other than the root has exactly one    *)
(* incoming branch, which comes from its parent.                           *)
(***************************************************************************)
C5_NodePerDescription ==
    /\ (call[1].pc = "done" /\ WellFormed(call[1].tree_str)) =>
          /\ CountNodes(heap, call[1].ret)
                = NodeDescriptions(call[1].tree_str)
          /\ CountBranches(heap, call[1].ret)
                = CountNodes(heap, call[1].ret) - 1
    /\ call[1].pc \in {"parsing", "done", "failed"} /\ curr_tree # 0 =>
          /\ \A n \in NodesOf(heap, curr_tree) \ {heap.trees[curr_tree].root} :
                /\ Cardinality(Incoming(heap, curr_tree, n)) = 1
                /\ \A i \in Incoming(heap, curr_tree, n) :
                      LET a == heap.branches[heap.trees[curr_tree].branches[i]].a
                      IN  a \in NodesOf(heap, curr_tree) /\ a < n
          /\ \A i \in 1..Len(call[1].stack) :
                LET f == call[1].stack[i]
                IN  (f.node # 0 /\ f.par # 0) =>
                       /\ heap.branches[f.branch].a = f.par
                       /\ heap.branches[f.branch].b = f.node
          /\ Incoming(heap, curr_tree, heap.trees[curr_tree].root) = {}

\* the read of "(,(,),)" has ended: six nodes, four of them empty tips
C5_Witness ==
    /\ call[1].pc = "done"
    /\ call[1].tree_str = <<"(", ",", "(", ",", ")", ",", ")">>
    /\ CountNodes(heap, call[1].ret) = 6
    /\ CountBranches(heap, call[1].ret) = 5

(***************************************************************************)
(* C1.  A read whose cleaned text has a different number of "(" than of    *)
(* ")" fails in the validation of _read with the malformed-tree assertion: *)
(* no tree and no node is created for it and nothing is returned.          *)
(***************************************************************************)
C1_UnbalancedRejected ==
    (/\ call[1].pc # "idle"
     /\ first[1].tree = 0
     /\ Count(call[1].tree_str, "(") # Count(call[1].tree_str, ")")) =>
        /\ call[1].pc = "failed"
        /\ call[1].err = [kind |-> "AssertionError", posn |-> -1]
        /\ heap = EmptyHeap

(***************************************************************************)
(* C2.  Every read ends: _parse_node is entered once for the root and once *)
(* more for each "(" or "," it consumes, and it is never deeper than the   *)
(* "(" it has consumed.  So a parse never holds more nodes than one plus   *)
(* the "(" and "," of its text, nor more frames than one plus its "(",     *)
(* also when the text ends right after a "(" or a ",".                     *)
(***************************************************************************)
C2_ParseBounded ==
    call[1].pc = "parsing" =>
        /\ CountNodes(heap, curr_tree)
              <= 1 + Count(curr_src, "(") + Count(curr_src, ",")
        /\ Len(call[1].stack) <= 1 + Count(curr_src, "(")

(***************************************************************************)
(* C3.  When _parse_node has consumed a "(" and a child, and the next      *)
(* character that is not a space is neither the "," of a further child nor *)
(* the ")" (the end of the text included), the read fails, and the error   *)
(* reports the position of that character: the cursor at which the ")"     *)
(* was expected.                                                           *)
(***************************************************************************)
C3_MissingCloseFails ==
    [][(/\ call[1].pc = "parsing"
        /\ Top(call[1]).pc = "children"
        /\ CharAt(curr_src, Skip(curr_src, curr_pos, {" "})) \notin {",", ")"})
       => (/\ call'[1].pc = "failed"
           /\ call'[1].err = [kind |-> "AssertionError",
                              posn |-> Skip(curr_src, curr_pos, {" "})])]_vars

\* every title of tree tr is made of name characters, and every tip has one
PlainNames(H, tr) ==
    \A n \in NodesOf(H, tr) :
        LET ttl == Get(H.nodes[n], TITLE)
        IN  /\ ttl.kind = "str" => \A i \in 1..Len(ttl.s) : ttl.s[i] \in NameChars
            /\ IsNodeTip(H, tr, n) => ttl.kind = "str"

(***************************************************************************)
(* C4.  Round trip.  A tree read from a well-formed text whose names need  *)
(* no quoting (every tip named) is written without an error, the text      *)
(* written is read back without an error, and the tree read back has the   *)
(* node count, the branch count and the shape of the first, with the same  *)
(* title and distance on every node and branch.  This is stated for a tree *)
(* API whose nodes are all true in a condition.                            *)
(***************************************************************************)
C4_RoundTrip ==
    ~emptyNodeIsFalse =>
        /\ (/\ call[1].pc = "done"
            /\ first[1].tree = 0
            /\ written[1].done
            /\ WellFormed(call[1].tree_str)
            /\ PlainNames(heap, call[1].ret)) => written[1].ok
        /\ (/\ first[1].tree # 0
            /\ call[1].pc \in {"done", "failed"}
            /\ WellFormed(first[1].str)
            /\ PlainNames(heap, first[1].tree)) =>
               /\ call[1].pc = "done"
               /\ Canon(heap, call[1].ret) = Canon(heap, first[1].tree)

(***************************************************************************)
(* C6.  When the description of a node carries a branch length, the step   *)
(* that parses it stores the value as "distance" on the branch from the    *)
(* node's parent and not on the node, whatever the parent carries; for the *)
(* root it stores the value as "distance" on the node.                     *)
(***************************************************************************)
C6_DistancePlacement ==
    [][(/\ call[1].pc = "parsing"
        /\ Top(call[1]).pc = "label"
        /\ call'[1].pc \in {"parsing", "done"}
        /\ call'[1].dist # None)
       => LET f == Top(call[1])
          IN  IF f.par # 0
              THEN /\ Get(heap'.branches[f.branch].attrs, DISTANCE)
                         = call'[1].dist
                   /\ Get(heap'.nodes[f.node], DISTANCE) = None
              ELSE Get(heap'.nodes[f.node], DISTANCE) = call'[1].dist]_vars

\* the name is one single-quoted string, spaces around it allowed
QuotedWhole(name) ==
    LET a == Skip(name, 0, WS)
        b == SkipNot(name, a + 1, "'")
    IN  /\ CharAt(name, a) = "'"
        /\ CharAt(name, b) = "'"
        /\ Skip(name, b + 1, WS) = Len(name)

(***************************************************************************)
(* C7.  A tip name that is not already one single-quoted string and holds  *)
(* a whitespace character or a comma is written wrapped in one pair of     *)
(* single quotes; every other name is written unchanged.  A name that only *)
(* contains a quoted fragment is not already quoted.                       *)
(***************************************************************************)
C7_TipQuoting ==
    written[1].done =>
        LET name == Get(heap.nodes[2], TITLE).s
            out  == IF ~QuotedWhole(name) /\ SpacesSearch(name)
                    THEN <<"'">> \o name \o <<"'">>
                    ELSE name
        IN  /\ written[1].ok
            /\ written[1].text = <<"(">> \o out \o <<")">>

\* a reader of its own, about to start
FreshMachine ==
    [src |-> << >>, pos |-> 0, cur |-> 0, H |-> EmptyHeap, c |-> IdleCall]

RECURSIVE RunAlone(_, _)
\* the steps of _parse_node, one after the other, until the call has ended
\* (or the tree has MaxTreeNodes nodes)
RunAlone(M, falsy) ==
    IF M.c.pc # "parsing" THEN M
    ELSE IF Top(M.c).pc = "enter"
         THEN IF CountNodes(M.H, M.cur) < MaxTreeNodes
              THEN RunAlone(ParseEnter(M), falsy)
              ELSE M
         ELSE IF Top(M.c).pc = "children"
              THEN RunAlone(ParseSiblings(M), falsy)
              ELSE RunAlone(ParseLabel(M, falsy), falsy)

\* a read of the cleaned text s with nothing else going on
SoloRead(s, falsy) == RunAlone(ReadClean(FreshMachine, s), falsy)

(***************************************************************************)
(* C8.  Two reads that overlap on one NewickReader do not share a cursor   *)
(* or a tree: however their steps interleave, a call that has ended gave   *)
(* what a read of its text alone gives, the same tree or the same error.   *)
(***************************************************************************)
C8_ReadsIndependent ==
    \A t \in Threads :
        call[t].pc \in {"done", "failed"} =>
            LET S == SoloRead(call[t].tree_str, emptyNodeIsFalse)
            IN  /\ S.c.pc = call[t].pc
                /\ call[t].pc = "failed" => S.c.err = call[t].err
                /\ call[t].pc = "done" =>
                      Canon(heap, call[t].ret) = Canon(S.H, S.c.ret)

(***************************************************************************)
(* C9.  _parseDist on ":" and a number of the grammar (a "-" or none, any  *)
(* count of integer digits, "e" or "E", the exponent with or without "-")  *)
(* consumes the number to its last character and returns its value.        *)
(***************************************************************************)
C9_WholeNumberParsed ==
    call[1].pc = "returned" =>
        /\ curr_pos = Len(curr_src)
        /\ call[1].dist = NumVal(ParseFloat(Tail(curr_src)))

(***************************************************************************)
(* C10.  During one read the cursor never moves left: no step of the       *)
(* parse, with its calls of _peek and _consumeLeadingSpace at any position *)
(* up to the end of the text, leaves the cursor before the position at     *)
(* which the step began.                                                   *)
(***************************************************************************)
C10_CursorMonotone ==
    [][(/\ call[1].pc = "parsing"
        /\ curr_tree' = curr_tree
        /\ curr_src' = curr_src) => curr_pos' >= curr_pos]_vars

=============================================================================
